---- MODULE Spec2Model ----
(***************************************************************************)
(* Model of simpleMemoryLibrary.c: the malloc/realloc/calloc/free          *)
(* interposer that wraps every block in a header (with two head guard      *)
(* words), address-derived padding and a cap (two tail guard words), keeps *)
(* the headers in a BSD LIST and counts the live allocations.              *)
(*                                                                         *)
(* Memory is modelled per block of the underlying allocator: the block at  *)
(* base address b holds the fields of struct memoryHeader, the padding     *)
(* bytes that follow the payload and the struct memoryCap.  Pointers are   *)
(* numbers: the payload pointer of the block at b is b + SizeofHeader.     *)
(* 64-bit words are kept as their eight bytes (little endian), so that a   *)
(* one-byte write changes one byte of a guard word.                        *)
(***************************************************************************)
EXTENDS Integers, Sequences, FiniteSets, TLC

(***************************************************************************)
(* Bounds of the model.                                                    *)
(***************************************************************************)
MaxLive    == 1   \* pointers the caller holds at the same time
NumSizes   == 1   \* request sizes are the multiples of half a word up to NumSizes of them
MaxCalls   == 3   \* calls and stray stores of the caller in a run (the reads are not counted)
MaxThreadCalls == 2 \* calls the threads make in a run in which their calls interleave
TraceLen   == 5   \* bytes kept of the formatted call chain (sPos-2)
SymLen     == 24  \* bytes backtrace_symbols allocates for its result

(***************************************************************************)
(* Program constants.                                                      *)
(***************************************************************************)
NULL                 == 0
MEM_HEADER_GUARD_LEN == 2
MEM_CAP_GUARD_LEN    == 2
\* 0xDEADBEEFCAFEF00D and 0x0CACAFECEBADC0DE, lowest address first
GUARD_BAND_TOP       == << \h0D, \hF0, \hFE, \hCA, \hEF, \hBE, \hAD, \hDE >>
GUARD_BAND_BOTTOM    == << \hDE, \hC0, \hAD, \hEB, \hEC, \hAF, \hAC, \h0C >>
WordSize             == 8    \* sizeof (unsigned long long)
SizeofHeader         == 56   \* sizeof (struct memoryHeader), LP64 with pthread_t
SizeofCap            == 16   \* sizeof (struct memoryCap)
OffNext              == 24   \* offsetof (struct memoryHeader, doubleLL.le_next)
REALLOC              == 0
MALLOC               == 1
CALLOC               == 2
maxSize              == 1024 \* trace(): the buffer the call chain is formatted into
HeadAddr             == 64   \* &gp_listHead.lh_first
szEmpty              == 128  \* the static "traceDisabled" string of the stub trace()
SizeTMod             == 2^16 \* size_t arithmetic wraps; the model keeps 16 bits of it
StaticLen            == 12288 \* 0x3000: elements of ullStatic
\* what dlsym (RTLD_NEXT, name) returns
RTLD_NEXT            == [ malloc |-> 8, free |-> 16, calloc |-> 24, realloc |-> 32 ]

Threads == {1, 2}
Sizes   == {k * (WordSize \div 2) : k \in 0..NumSizes}

\* Blocks the underlying allocator can hand out: 16-aligned bases, far enough
\* apart for the largest request, with different low address bytes.
NumSlots == 2 * MaxLive + 10
SlotSpan == 4112
Bases    == {k * SlotSpan : k \in 1..NumSlots}

VARIABLES
  TRACE,            \* build switch -DTRACE=1 (fixed for a run)
  heap,             \* base address -> block contents, for the allocated blocks
  lh_first,         \* gp_listHead.lh_first
  gi_allocCount,
  gi_hookDisabled,  \* __thread int, one per thread
  aborted,          \* abort() has been called
  held,             \* payload pointers returned to the caller and not yet released
  oob,              \* the caller has made a store outside a payload
  ignored,          \* mem_ignore_current_allocations has been called
  run,              \* sizes of the Allocate calls made since the Registry was last empty
  calls,            \* number of calls and stray stores the caller has made
  g_mutex,          \* the thread that holds the mutex, or NULL
  fr,               \* per thread: the call it is in and where in it (used when calls interleave)
  last,             \* the last call that is no mere read: its name, pointer argument and result
  gp_orgMalloc,     \* NULL until init has looked the function up
  gp_orgCalloc,
  sIndex,           \* internalStaticAlloc: static __thread size_t, one per thread
  handed            \* the results of the calls made from process start on, in order (used there)

vars == << TRACE, heap, lh_first, gi_allocCount, gi_hookDisabled, aborted,
           held, oob, ignored, run, calls, g_mutex, fr, last,
           gp_orgMalloc, gp_orgCalloc, sIndex, handed >>

\* The state of the process the C functions work on.
PS == [ heap |-> heap, lh_first |-> lh_first, gi_allocCount |-> gi_allocCount,
        gi_hookDisabled |-> gi_hookDisabled, aborted |-> aborted, ret |-> NULL ]

(***************************************************************************)
(* sys/queue.h                                                             *)
(***************************************************************************)
\* *le_prev = v, where le_prev points at lh_first or at some le_next
StoreThrough(s, prevp, v) ==
  IF prevp = HeadAddr
    THEN [s EXCEPT !.lh_first = v]
    ELSE [s EXCEPT !.heap[prevp - OffNext].le_next = v]

LIST_REMOVE(s, elm) ==
  LET nxt == s.heap[elm].le_next
      prv == s.heap[elm].le_prev
      s1  == IF nxt # NULL THEN [s EXCEPT !.heap[nxt].le_prev = prv] ELSE s
  IN  StoreThrough(s1, prv, nxt)

LIST_INSERT_HEAD(s, elm) ==
  LET first == s.lh_first
      s1 == [s EXCEPT !.heap[elm].le_next = first]
      s2 == IF first # NULL
              THEN [s1 EXCEPT !.heap[first].le_prev = elm + OffNext]
              ELSE s1
  IN  [s2 EXCEPT !.lh_first = elm, !.heap[elm].le_prev = HeadAddr]

(***************************************************************************)
(* Block layout                                                            *)
(***************************************************************************)
\* number of bytes from ucPtr+size up to the next multiple of WordSize
PadLen(ucPtr, size) == (WordSize - ((ucPtr + size) % WordSize)) % WordSize

\* the byte the padding holds at address a
PadByte(a) == a % 256

PadFill(ucPtr, size) == [i \in 1..PadLen(ucPtr, size) |-> PadByte(ucPtr + size + i - 1)]

Word(b) == [i \in 1..WordSize |-> b]

\* adjSize of internalRealloc
AdjSize(size, nmemb) ==
  LET a == (((size * nmemb) % SizeTMod) + SizeofHeader + SizeofCap) % SizeTMod
  IN  IF a % WordSize # 0 THEN (a + (WordSize - (a % WordSize))) % SizeTMod ELSE a

(***************************************************************************)
(* The underlying allocator (gp_orgRealloc, gp_orgFree).  e is what the    *)
(* environment decides for the call: e.fail (no storage), e.move (realloc  *)
(* moves the block), e.fill (the byte found in storage that was never      *)
(* written).  New storage is the lowest free block.                        *)
(***************************************************************************)
FreeBases(h) == Bases \ DOMAIN h

FirstFree(h) == CHOOSE b \in FreeBases(h) : \A c \in FreeBases(h) : b <= c

RawBlock(len, fill) ==
  [ szAllocator |-> NULL, size |-> 0, le_next |-> NULL, le_prev |-> NULL,
    ullFixedValues |-> [i \in 1..MEM_HEADER_GUARD_LEN |-> Word(fill)],
    pad |-> << >>,
    cap |-> [i \in 1..MEM_CAP_GUARD_LEN |-> Word(fill)],
    blockLen |-> len ]

Extend(h, b, blk) == [x \in DOMAIN h \cup {b} |-> IF x = b THEN blk ELSE h[x]]
Remove(h, b)      == [x \in DOMAIN h \ {b} |-> h[x]]

\* realloc(3) of the C library: [heap, ptr]
orgRealloc(h, ptr, len, e) ==
  IF e.fail THEN [heap |-> h, ptr |-> NULL]
  ELSE IF ptr = NULL
    THEN LET b == FirstFree(h)
         IN  [heap |-> Extend(h, b, RawBlock(len, e.fill)), ptr |-> b]
  ELSE IF e.move
    THEN LET b == FirstFree(h)
         IN  [heap |-> Extend(Remove(h, ptr), b, [h[ptr] EXCEPT !.blockLen = len]),
              ptr |-> b]
  ELSE [heap |-> [h EXCEPT ![ptr].blockLen = len], ptr |-> ptr]

\* free(3) of the C library
orgFree(h, ptr) == Remove(h, ptr)

(***************************************************************************)
(* verifyIntegrity: TRUE when every ASSERT of it passes                    *)
(***************************************************************************)
\* verifyIntegrity without the walk over the padding bytes
verifyIntegrityNoPadding(h, vPtr) ==
  LET mHead == vPtr - SizeofHeader
  IN  /\ \A i \in 1..MEM_HEADER_GUARD_LEN : h[mHead].ullFixedValues[i] = GUARD_BAND_TOP
      /\ \A i \in 1..MEM_CAP_GUARD_LEN : h[mHead].cap[i] = GUARD_BAND_BOTTOM

verifyIntegrity(h, vPtr) ==
  LET mHead == vPtr - SizeofHeader
      size  == h[mHead].size
  IN  /\ \A i \in 1..MEM_HEADER_GUARD_LEN : h[mHead].ullFixedValues[i] = GUARD_BAND_TOP
      /\ \A i \in 1..PadLen(vPtr, size) : h[mHead].pad[i] = PadByte(vPtr + size + i - 1)
      /\ \A i \in 1..MEM_CAP_GUARD_LEN : h[mHead].cap[i] = GUARD_BAND_BOTTOM

Abort(s) == [s EXCEPT !.aborted = TRUE, !.ret = NULL]

\* the storage found where the padding and the cap of a payload of newSize
\* bytes lie, before they are written: what was copied when the size did not
\* change, unwritten storage otherwise
RawTail(blk, ucPtr, newSize, fill) ==
  IF blk.size = newSize /\ Len(blk.pad) = PadLen(ucPtr, newSize)
    THEN blk
    ELSE [blk EXCEPT !.pad = [i \in 1..PadLen(ucPtr, newSize) |-> fill],
                     !.cap = [i \in 1..MEM_CAP_GUARD_LEN |-> Word(fill)]]

\* writeGuardBands without the loop that fills the padding: the padding is
\* left as the storage was found
writeGuardBandsNoPadding(h, mHead) ==
  [h EXCEPT ![mHead].ullFixedValues = [i \in 1..MEM_HEADER_GUARD_LEN |-> GUARD_BAND_TOP],
            ![mHead].cap = [i \in 1..MEM_CAP_GUARD_LEN |-> GUARD_BAND_BOTTOM]]

\* lines 609-628 of internalRealloc: the guard bands and the padding
writeGuardBands(h, mHead) ==
  LET ucPtr == mHead + SizeofHeader
  IN  [h EXCEPT ![mHead].ullFixedValues = [i \in 1..MEM_HEADER_GUARD_LEN |-> GUARD_BAND_TOP],
                ![mHead].pad = PadFill(ucPtr, h[mHead].size),
                ![mHead].cap = [i \in 1..MEM_CAP_GUARD_LEN |-> GUARD_BAND_BOTTOM]]

(***************************************************************************)
(* The interception core.  Every function takes the process state s and    *)
(* yields the state after the call, with the returned value in s.ret.  A   *)
(* call made after abort() changes nothing.                                *)
(*                                                                         *)
(* The calls the library makes itself (trace, and the frees of attribution *)
(* strings) run with gi_hookDisabled set, so they take the branch of       *)
(* internalRealloc and internalFree that neither traces nor counts: these  *)
(* are internalReallocD and freeD.          Their storage requests are     *)
(* taken to succeed and to leave the string where it is: e.fail and e.move *)
(* are about the request of the call the caller made.                      *)
(***************************************************************************)
Nested(e) == [e EXCEPT !.fail = FALSE, !.move = FALSE]

\* if (mHead->doubleLL.le_prev != NULL) { LIST_REMOVE; le_prev = NULL; }
unlink(s, mHead) ==
  IF s.heap[mHead].le_prev # NULL
    THEN [LIST_REMOVE(s, mHead) EXCEPT !.heap[mHead].le_prev = NULL]
    ELSE s

\* a release that forgets the count
countDownNot(s) == s

\* gi_allocCount++ / gi_allocCount-- (an int)
countUp(s)   == [s EXCEPT !.gi_allocCount = @ + 1]
countDown(s) == [s EXCEPT !.gi_allocCount = @ - 1]

\* Each function below is written as a chain of steps, every step an operator
\* that takes the state its predecessor left.

\* internalRealloc, line 543: gp_orgRealloc (mHead, adjSize); .ret is the new mHead
resizeBlock(s, old, len, e) ==
  LET r == orgRealloc(s.heap, old, len, e)
  IN  [s EXCEPT !.heap = r.heap, !.ret = r.ptr]

\* internalRealloc, lines 518-547: the old record is verified and taken off
\* the list, then gp_orgRealloc
resize(s, vPtr, size, nmemb, e) ==
  IF vPtr = NULL THEN resizeBlock(s, NULL, AdjSize(size, nmemb), e)
  ELSE IF ~verifyIntegrity(s.heap, vPtr) THEN Abort(s)
  ELSE resizeBlock(unlink(s, vPtr - SizeofHeader), vPtr - SizeofHeader,
                   AdjSize(size, nmemb), e)

\* internalRealloc, lines 596-608: the header fields and the insertion into the list
fillHeader(s, mHead, szCaller, size, fill) ==
  LIST_INSERT_HEAD(
    [s EXCEPT !.heap[mHead] =
       [RawTail(s.heap[mHead], mHead + SizeofHeader, size, fill)
          EXCEPT !.szAllocator = szCaller, !.size = size,
                 !.le_next = NULL, !.le_prev = NULL]],
    mHead)

\* internalRealloc, lines 609-631
guardAndReturn(s, mHead) ==
  [s EXCEPT !.heap = writeGuardBands(s.heap, mHead), !.ret = mHead + SizeofHeader]

\* internalRealloc, lines 596-631
build(s, mHead, szCaller, size, fill) ==
  guardAndReturn(fillHeader(s, mHead, szCaller, size, fill), mHead)

\* internalFree, line 694
releaseBlock(s, mHead) == [s EXCEPT !.heap = orgFree(s.heap, mHead), !.ret = NULL]

\* internalFree, lines 683-694
release(s, vPtr) ==
  IF ~verifyIntegrity(s.heap, vPtr) THEN Abort(s)
  ELSE releaseBlock(unlink(s, vPtr - SizeofHeader), vPtr - SizeofHeader)

\* internalRealloc with gi_hookDisabled set: after gp_orgRealloc
builtD(s, size, fill) ==
  IF s.aborted \/ s.ret = NULL THEN s ELSE build(s, s.ret, NULL, size, fill)

\* internalRealloc with gi_hookDisabled set
internalReallocD(s, vPtr, size, nmemb, e) ==
  IF s.aborted THEN s
  ELSE builtD(resize(s, vPtr, size, nmemb, e), (size * nmemb) % SizeTMod, e.fill)

\* free -> internalFree with gi_hookDisabled set
freeD(s, vPtr) ==
  IF s.aborted \/ vPtr = NULL THEN s ELSE release(s, vPtr)

\* trace: free (strings); return szPtr;
traceReturn(s, strings) == [freeD(s, strings) EXCEPT !.ret = s.ret]

\* trace: szPtr = realloc (szPtr, sPos-2), s.ret being szPtr
traceShrink(s, strings, e) ==
  traceReturn(internalReallocD(s, s.ret, TraceLen, 1, e), strings)

\* trace: szPtr = realloc (NULL, maxSize), s.ret being strings
traceFormat(s, e) ==
  traceShrink(internalReallocD(s, NULL, maxSize, 1, e), s.ret, e)

\* With -DTRACE=1 the call chain is formatted into an allocated string; the
\* stub returns the static string.  Only trace (n, 1) is ever called, and
\* always with gi_hookDisabled set.  backtrace_symbols allocates its result;
\* the call chain is never empty (sPos != 0), there being the caller's frame.
trace(s, iLen, ucGetPtr, e) ==
  IF ~TRACE THEN [s EXCEPT !.ret = szEmpty]
  ELSE traceFormat(internalReallocD(s, NULL, SymLen, 1, e), e)

\* a clearing of the flag that clears the flag of every thread
hookOffAll(s, t) ==
  IF s.aborted THEN s ELSE [s EXCEPT !.gi_hookDisabled = [u \in Threads |-> 0]]

\* internalRealloc, line 593 (s.ret is szCaller all along)
hookOff(s, t) == IF s.aborted THEN s ELSE [s EXCEPT !.gi_hookDisabled[t] = 0]

\* free -> internalFree with gi_hookDisabled set, the value of s.ret kept
freeKeep(s, vPtr) == [freeD(s, vPtr) EXCEPT !.ret = IF s.aborted THEN NULL ELSE s.ret]

\* the switch without the count of a REALLOC that was given no block
countedNoRealloc(s, vPtr, szAllocator, type) ==
  IF type = REALLOC
    THEN IF TRACE /\ szAllocator # NULL THEN freeKeep(s, szAllocator) ELSE s
    ELSE countUp(s)

\* internalRealloc, lines 554-592: the switch, s.ret being szCaller
counted(s, vPtr, szAllocator, type) ==
  IF type = REALLOC
    THEN IF TRACE /\ szAllocator # NULL
           THEN freeKeep(IF vPtr = NULL THEN countUp(s) ELSE s, szAllocator)
           ELSE IF vPtr = NULL THEN countUp(s) ELSE s
    ELSE countUp(s)

\* internalRealloc, lines 549-594: attribution and counting; .ret is szCaller
hooked(s, t, vPtr, szAllocator, type, e) ==
  hookOff(counted(trace([s EXCEPT !.gi_hookDisabled[t] = 1], 4, 1, e),
                  vPtr, szAllocator, type), t)

\* internalRealloc, lines 549-631, s.ret being what hooked left: szCaller
built(s, mHead, size, fill) ==
  IF s.aborted THEN s ELSE build(s, mHead, s.ret, size, fill)

\* internalRealloc that aborts when gp_orgRealloc returns NULL
attributedOrAbort(s, t, vPtr, szAllocator, size, type, e) ==
  IF s.aborted THEN s
  ELSE IF s.ret = NULL THEN Abort(s)
  ELSE built(IF s.gi_hookDisabled[t] = 0
               THEN hooked(s, t, vPtr, szAllocator, type, Nested(e))
               ELSE [s EXCEPT !.ret = NULL],
             s.ret, size, e.fill)

\* internalRealloc, lines 544-631, s.ret being mHead
attributed(s, t, vPtr, szAllocator, size, type, e) ==
  IF s.aborted \/ s.ret = NULL THEN s
  ELSE built(IF s.gi_hookDisabled[t] = 0
               THEN hooked(s, t, vPtr, szAllocator, type, Nested(e))
               ELSE [s EXCEPT !.ret = NULL],
             s.ret, size, e.fill)

internalRealloc(s, t, vPtr, size, nmemb, type, e) ==
  IF s.aborted THEN s
  ELSE attributed(resize(s, vPtr, size, nmemb, e), t, vPtr,
                  IF vPtr # NULL THEN s.heap[vPtr - SizeofHeader].szAllocator ELSE NULL,
                  (size * nmemb) % SizeTMod, type, e)

\* the end of internalFree without free (szAllocator)
uncountedKeep(s, t, szAllocator) ==
  hookOff(IF TRACE THEN freeD(countDown(s), s.ret) ELSE countDown(s), t)

\* internalFree, lines 705-721, s.ret being szCaller
uncounted(s, t, szAllocator) ==
  hookOff(IF TRACE THEN freeD(freeD(countDown(s), s.ret), szAllocator)
                   ELSE countDown(s), t)

\* internalFree, lines 696-722
freed(s, t, szAllocator, iLen, e) ==
  IF s.aborted \/ s.gi_hookDisabled[t] # 0 THEN s
  ELSE [uncounted(trace([s EXCEPT !.gi_hookDisabled[t] = 1], iLen, 1, e), t, szAllocator)
          EXCEPT !.ret = NULL]

internalFree(s, t, vPtr, iLen, e) ==
  IF s.aborted THEN s
  ELSE freed(release(s, vPtr), t, s.heap[vPtr - SizeofHeader].szAllocator, iLen, Nested(e))

malloc(s, t, size, e) == internalRealloc(s, t, NULL, size, 1, MALLOC, e)

realloc(s, t, vPtr, size, e) == internalRealloc(s, t, vPtr, size, 1, REALLOC, e)

\* memset (vPtr, c, n) on a payload: the payload bytes are not kept in the
\* model, so the stores that show are those past the payload, into the
\* padding and the cap
memset(h, vPtr, c, n) ==
  LET mHead == vPtr - SizeofHeader
      size  == h[mHead].size
      pad   == Len(h[mHead].pad)
  IN  IF n <= size THEN h
      ELSE [h EXCEPT
              ![mHead].pad = [i \in 1..pad |-> IF size + i - 1 < n THEN c ELSE h[mHead].pad[i]],
              ![mHead].cap = [w \in 1..MEM_CAP_GUARD_LEN |-> [j \in 1..WordSize |->
                                IF size + pad + (w - 1) * WordSize + (j - 1) < n
                                  THEN c ELSE h[mHead].cap[w][j]]]]

\* calloc that clears one byte more than it asked for
clearedOneMore(s, len, e) ==
  IF s.aborted THEN s
  ELSE IF s.ret = NULL THEN (IF len # 0 /\ e.crash THEN Abort(s) ELSE s)
  ELSE [s EXCEPT !.heap = memset(s.heap, s.ret, 0, len + 1)]

\* calloc, line 775: memset (vPtr, 0, nmemb*size).  With vPtr NULL and a length
\* that is not 0 the store is undefined: e.crash says whether the process dies
\* of it or goes on
cleared(s, len, e) ==
  IF s.aborted THEN s
  ELSE IF s.ret = NULL THEN (IF len # 0 /\ e.crash THEN Abort(s) ELSE s)
  ELSE [s EXCEPT !.heap = memset(s.heap, s.ret, 0, len)]

calloc(s, t, nmemb, size, e) ==
  cleared(internalRealloc(s, t, NULL, nmemb, size, CALLOC, e), (nmemb * size) % SizeTMod, e)

\* free that counts a release of NULL
freeCounting(s, t, vPtr, e) ==
  IF vPtr # NULL THEN internalFree(s, t, vPtr, 4, e) ELSE [countDown(s) EXCEPT !.ret = NULL]

free(s, t, vPtr, e) ==
  IF vPtr # NULL THEN internalFree(s, t, vPtr, 4, e) ELSE [s EXCEPT !.ret = NULL]

(***************************************************************************)
(* The diagnostics API                                                     *)
(***************************************************************************)
RECURSIVE ListFrom(_, _)
\* the records met by   for (ml = first; ml != NULL; ml = ml->doubleLL.le_next)
ListFrom(h, ml) == IF ml = NULL THEN << >> ELSE << ml >> \o ListFrom(h, h[ml].le_next)

Registry(s) == ListFrom(s.heap, s.lh_first)

RECURSIVE SumOver(_, _, _)
SumOver(seq, i, f) == IF i > Len(seq) THEN 0 ELSE f[seq[i]] + SumOver(seq, i + 1, f)

\* every verifyIntegrity (ml+1) of a traversal passes
sweepOk(s) ==
  \A i \in 1..Len(Registry(s)) : verifyIntegrity(s.heap, Registry(s)[i] + SizeofHeader)

mem_get_alloc_count(s) == [s EXCEPT !.ret = s.gi_allocCount]

\* mem_get_usage without the test of szAllocator
mem_get_usage_every(s) ==
  IF ~sweepOk(s) THEN Abort(s)
  ELSE [s EXCEPT !.ret = SumOver(Registry(s), 1, [b \in DOMAIN s.heap |-> s.heap[b].size])]

mem_get_usage(s) ==
  IF ~sweepOk(s) THEN Abort(s)
  ELSE [s EXCEPT !.ret = SumOver(Registry(s), 1,
           [b \in DOMAIN s.heap |-> IF s.heap[b].szAllocator # NULL THEN s.heap[b].size ELSE 0])]

mem_get_real_usage(s) ==
  IF ~sweepOk(s) THEN Abort(s)
  ELSE [s EXCEPT !.ret = SumOver(Registry(s), 1,
           [b \in DOMAIN s.heap |-> s.heap[b].size + SizeofHeader + SizeofCap])]

mem_check_integrity(s) == IF ~sweepOk(s) THEN Abort(s) ELSE [s EXCEPT !.ret = NULL]

\* a loop that ends after the first record
ignoreFirst(s, ml) ==
  IF ml = NULL THEN s ELSE [LIST_REMOVE(s, ml) EXCEPT !.heap[ml].le_prev = NULL]

RECURSIVE ignoreLoop(_, _)
\* for (ml = lh_first; ml != NULL; ml = ml->le_next) { LIST_REMOVE; le_prev = NULL; }
ignoreLoop(s, ml) ==
  IF ml = NULL THEN s
  ELSE LET s1 == [LIST_REMOVE(s, ml) EXCEPT !.heap[ml].le_prev = NULL]
       IN  ignoreLoop(s1, s1.heap[ml].le_next)

mem_ignore_current_allocations(s) ==
  [ignoreLoop(s, s.lh_first) EXCEPT !.gi_allocCount = 0, !.ret = NULL]

\* what mem_show_allocations writes to fp: the entries, the count its header
\* line gives, and whether the "No memory allocations currently" line is written
Report(s) ==
  LET shown == SelectSeq(Registry(s),
                 LAMBDA b : s.heap[b].szAllocator # NULL /\ s.heap[b].size # 0)
  IN  [ entries |-> [i \in 1..Len(shown) |->
                       [ address |-> shown[i] + SizeofHeader, size |-> s.heap[shown[i]].size,
                         by |-> s.heap[shown[i]].szAllocator ]],
        blocks  |-> IF Len(shown) # 0 THEN s.gi_allocCount ELSE 0,
        none    |-> Len(shown) = 0 ]

mem_show_allocations(s) == IF ~sweepOk(s) THEN Abort(s) ELSE [s EXCEPT !.ret = NULL]

\* static void init (void): the list is empty, then malloc (0)
init(t, e) ==
  malloc([ heap |-> [x \in {} |-> NULL], lh_first |-> NULL, gi_allocCount |-> 0,
           gi_hookDisabled |-> [x \in Threads |-> 0], aborted |-> FALSE, ret |-> NULL ],
         t, 0, e)

(***************************************************************************)
(* The caller.  Each action is one call of a thread, run to its return (or *)
(* to abort()); the out-of-bounds writes are the caller's own stores.      *)
(***************************************************************************)
Fills == {\hA5}

\* what the environment may decide for one call
Envs == [move : BOOLEAN, fail : BOOLEAN, fill : Fills, crash : BOOLEAN]

\* fresh: a free of the pointer the call before it, a malloc, returned
Call(op, ptr, e, r) ==
  [ op |-> op, ptr |-> ptr, fail |-> e.fail, ret |-> r.ret,
    fresh |-> op = "free" /\ ptr # NULL /\ last.op = "malloc" /\ last.ret = ptr ]

NoEnv == [move |-> FALSE, fail |-> FALSE, fill |-> 0, crash |-> FALSE]

\* the frame of a thread: pc is where it is, op the entry point it was called
\* through, vPtr and size its arguments (size in bytes), then the locals
Frame(pc, op, vPtr, size) ==
  [ pc |-> pc, op |-> op, vPtr |-> vPtr, size |-> size,
    mHead |-> NULL, szAllocator |-> NULL, szCaller |-> NULL ]

\* a thread that is in no call
Idle == Frame("idle", "none", NULL, 0)

\* the heap and the globals of the library become those of r
Leaves(r) ==
  /\ heap' = r.heap
  /\ lh_first' = r.lh_first
  /\ gi_allocCount' = r.gi_allocCount
  /\ gi_hookDisabled' = r.gi_hookDisabled
  /\ aborted' = r.aborted

\* the primed process state is r
Program(r) ==
  /\ Leaves(r)
  /\ UNCHANGED << TRACE, gp_orgMalloc, gp_orgCalloc, sIndex, handed >>

\* a call that runs from entry to return with no other thread in between:
\* the mutex is free before and after it
Becomes(r) ==
  /\ Program(r)
  /\ UNCHANGED << g_mutex, fr >>

NewRun == [ok |-> TRUE, n |-> 0, sum |-> 0]
NoRun  == [ok |-> FALSE, n |-> 0, sum |-> 0]

\* the Allocate calls since the Registry was last empty (with a zero count)
RunAfter(r, next) ==
  IF r.lh_first = NULL /\ r.gi_allocCount = 0 THEN NewRun ELSE next

Init ==
  /\ TRACE \in BOOLEAN
  /\ \E t \in Threads, e \in Envs :
       /\ ~e.fail /\ ~e.crash /\ ~e.move
       /\ LET r == init(t, e)
          IN  /\ heap = r.heap
              /\ lh_first = r.lh_first
              /\ gi_allocCount = r.gi_allocCount
              /\ gi_hookDisabled = r.gi_hookDisabled
              /\ aborted = r.aborted
  /\ held = {}
  /\ oob = FALSE
  /\ calls = 0
  /\ g_mutex = NULL
  /\ fr = [t \in Threads |-> Idle]
  /\ ignored = FALSE
  /\ run = [ok |-> TRUE, n |-> 1, sum |-> 0]
  /\ last = [ op |-> "init", ptr |-> NULL, fail |-> FALSE, ret |-> NULL, fresh |-> FALSE ]
  /\ gp_orgMalloc = RTLD_NEXT.malloc
  /\ gp_orgCalloc = RTLD_NEXT.calloc
  /\ sIndex = [t \in Threads |-> 0]
  /\ handed = << >>

Malloc(t, size, e) ==
  /\ ~aborted /\ calls < MaxCalls /\ Cardinality(held) < MaxLive /\ ~e.crash /\ ~e.move
  /\ LET r == malloc(PS, t, size, e)
     IN  /\ Becomes(r)
         /\ held' = held \cup ({r.ret} \ {NULL})
         /\ run' = IF e.fail \/ ~run.ok THEN run
                   ELSE [ok |-> TRUE, n |-> run.n + 1, sum |-> run.sum + size]
         /\ last' = Call("malloc", NULL, e, r)
  /\ calls' = calls + 1
  /\ UNCHANGED << oob, ignored >>

Calloc(t, nmemb, size, e) ==
  /\ ~aborted /\ calls < MaxCalls /\ Cardinality(held) < MaxLive /\ ~e.move
  /\ e.crash => e.fail
  /\ LET r == calloc(PS, t, nmemb, size, e)
     IN  /\ Becomes(r)
         /\ held' = held \cup ({r.ret} \ {NULL})
         /\ run' = IF e.fail THEN run ELSE RunAfter(r, NoRun)
         /\ last' = Call("calloc", NULL, e, r)
  /\ calls' = calls + 1
  /\ UNCHANGED << oob, ignored >>

Realloc(t, vPtr, size, e) ==
  /\ ~aborted /\ calls < MaxCalls /\ ~e.crash
  /\ vPtr \in held \cup {NULL}
  /\ vPtr = NULL => Cardinality(held) < MaxLive
  /\ LET r == realloc(PS, t, vPtr, size, e)
     IN  /\ Becomes(r)
         /\ held' = IF r.ret = NULL THEN held ELSE (held \ {vPtr}) \cup {r.ret}
         /\ run' = IF e.fail /\ vPtr = NULL THEN run
                   ELSE RunAfter(r, NoRun)
         /\ last' = Call("realloc", vPtr, e, r)
  /\ calls' = calls + 1
  /\ UNCHANGED << oob, ignored >>

Free(t, vPtr, e) ==
  /\ ~aborted /\ calls < MaxCalls /\ ~e.fail /\ ~e.crash /\ ~e.move
  /\ vPtr \in held \cup {NULL}
  /\ LET r == free(PS, t, vPtr, e)
     IN  /\ Becomes(r)
         /\ held' = IF r.aborted THEN held ELSE held \ {vPtr}
         /\ run' = IF vPtr = NULL THEN run ELSE RunAfter(r, NoRun)
         /\ last' = Call("free", vPtr, e, r)
  /\ calls' = calls + 1
  /\ UNCHANGED << oob, ignored >>

\* the values a stray store may leave: the byte that was there, or another
Stores(expected) == {0, expected}

\* ((unsigned char *) vPtr)[size] = v : one byte past the payload, which is
\* the first padding byte or, without padding, the lowest byte of the cap
Overrun(vPtr, v) ==
  /\ ~aborted /\ calls < MaxCalls /\ vPtr \in held
  /\ LET mHead == vPtr - SizeofHeader
         size  == heap[mHead].size
     IN  /\ v \in Stores(IF PadLen(vPtr, size) > 0 THEN PadByte(vPtr + size) ELSE GUARD_BAND_BOTTOM[1])
         /\ heap' = IF PadLen(vPtr, size) > 0
                      THEN [heap EXCEPT ![mHead].pad[1] = v]
                      ELSE [heap EXCEPT ![mHead].cap[1][1] = v]
  /\ oob' = TRUE
  /\ last' = [ op |-> "overrun", ptr |-> vPtr, fail |-> FALSE, ret |-> NULL, fresh |-> FALSE ]
  /\ calls' = calls + 1
  /\ UNCHANGED << TRACE, gp_orgMalloc, gp_orgCalloc, sIndex, handed, lh_first, gi_allocCount, gi_hookDisabled, aborted, held, ignored, run,
                  g_mutex, fr >>

\* ((unsigned char *) vPtr)[-1] = v : the highest byte of the second head guard word
Underrun(vPtr, v) ==
  /\ ~aborted /\ calls < MaxCalls /\ vPtr \in held
  /\ v \in Stores(GUARD_BAND_TOP[WordSize])
  /\ heap' = [heap EXCEPT ![vPtr - SizeofHeader].ullFixedValues[MEM_HEADER_GUARD_LEN][WordSize] = v]
  /\ oob' = TRUE
  /\ last' = [ op |-> "underrun", ptr |-> vPtr, fail |-> FALSE, ret |-> NULL, fresh |-> FALSE ]
  /\ calls' = calls + 1
  /\ UNCHANGED << TRACE, gp_orgMalloc, gp_orgCalloc, sIndex, handed, lh_first, gi_allocCount, gi_hookDisabled, aborted, held, ignored, run,
                  g_mutex, fr >>

\* The calls that only read: the process state changes when they abort; what
\* they return or write is the .ret of the function (Report for the report).
Diag(r) ==
  /\ Becomes(r)
  /\ UNCHANGED << held, oob, ignored, run, calls, last >>

GetAllocCount   == ~aborted /\ Diag(mem_get_alloc_count(PS))
GetUsage        == ~aborted /\ Diag(mem_get_usage(PS))
GetRealUsage    == ~aborted /\ Diag(mem_get_real_usage(PS))
CheckIntegrity  == ~aborted /\ Diag(mem_check_integrity(PS))
ShowAllocations == ~aborted /\ Diag(mem_show_allocations(PS))

IgnoreCurrentAllocations ==
  /\ ~aborted /\ calls < MaxCalls
  /\ calls' = calls + 1
  /\ LET r == mem_ignore_current_allocations(PS)
     IN  /\ Becomes(r)
         /\ last' = Call("ignore", NULL, NoEnv, r)
         /\ run' = RunAfter(r, run)
  /\ ignored' = TRUE
  /\ UNCHANGED << held, oob >>

Next ==
  \/ \E t \in Threads, size \in Sizes, e \in Envs : Malloc(t, size, e)
  \/ \E t \in Threads, nmemb \in 0..NumSizes, e \in Envs : Calloc(t, nmemb, WordSize \div 2, e)
  \/ \E t \in Threads, vPtr \in held \cup {NULL}, size \in Sizes, e \in Envs :
        Realloc(t, vPtr, size, e)
  \/ \E t \in Threads, vPtr \in held \cup {NULL}, e \in Envs : Free(t, vPtr, e)
  \/ \E vPtr \in held, v \in 0..255 : Overrun(vPtr, v)
  \/ \E vPtr \in held, v \in 0..255 : Underrun(vPtr, v)
  \/ GetAllocCount
  \/ GetUsage
  \/ GetRealUsage
  \/ CheckIntegrity
  \/ ShowAllocations
  \/ IgnoreCurrentAllocations

Spec == Init /\ [][Next]_vars

(***************************************************************************)
(* The same functions with the calls of the threads interleaved.  A call   *)
(* is cut where the code takes the mutex: a step is what a thread does     *)
(* between two such points (MUTEX_UNLOCK ends the step that follows the    *)
(* MUTEX_LOCK).  The steps use the operators of the functions above.  The  *)
(* calls that trace() and the frees of attribution strings make are whole  *)
(* calls inside one step: they take and release the mutex themselves, so   *)
(* the step waits until the mutex is free.  Here every storage request is  *)
(* granted and no caller stores outside its payload.                       *)
(***************************************************************************)
\* the process state with r.ret cleared
Quiet(r) == [r EXCEPT !.ret = NULL]

\* thread t goes on with frame f, the process state being r
Goes(t, f, r) ==
  /\ Program(r)
  /\ fr' = [fr EXCEPT ![t] = IF r.aborted THEN fr[t] ELSE f]

At(t, pc) == ~aborted /\ fr[t].pc = pc

To(t, pc) == [fr[t] EXCEPT !.pc = pc]

\* a release of the mutex that leaves it with the holder
MUTEX_UNLOCK_Keep == UNCHANGED g_mutex

MUTEX_UNLOCK == g_mutex' = NULL

\* the size the threads ask for: half a word, a payload with padding after it
\* (the sizes are the matter of the runs without interleaving)
ThreadSizes == {WordSize \div 2}

\* what the underlying allocator may decide in these runs
MoveEnvs == {e \in Envs : ~e.fail /\ ~e.crash}

StayEnv == CHOOSE e \in MoveEnvs : ~e.move

\* the allocations in progress
Allocating == {t \in Threads : fr[t].pc # "idle" /\ fr[t].op \in {"malloc", "calloc", "realloc", "show"}}

\* type of internalRealloc for the entry point
TypeOf(op) == IF op = "realloc" THEN REALLOC ELSE IF op = "calloc" THEN CALLOC ELSE MALLOC

\* the places where a thread waits for the mutex, each with the place it
\* goes on at when it has it
LockSites ==
  { << "ir_lock1", "ir_unlink" >>, << "ir_lockc", "ir_count" >>, << "ir_lock2", "ir_insert" >>,
    << "if_lock1", "if_unlink" >>, << "if_lockc", "if_count" >>, << "dg_lock", "dg_sweep" >> }

\* a lock that does not wait for the holder
MUTEX_LOCK_NoWait(t) ==
  /\ ~aborted
  /\ \E site \in LockSites :
       /\ fr[t].pc = site[1]
       /\ fr' = [fr EXCEPT ![t] = To(t, site[2])]
  /\ g_mutex' = t
  /\ UNCHANGED << TRACE, gp_orgMalloc, gp_orgCalloc, sIndex, handed, heap, lh_first, gi_allocCount, gi_hookDisabled, aborted,
                  held, oob, ignored, run, calls, last >>

\* MUTEX_LOCK (&g_mutex): pthread_mutex_lock of a mutex of the default kind
MUTEX_LOCK(t) ==
  /\ ~aborted /\ g_mutex = NULL
  /\ \E site \in LockSites :
       /\ fr[t].pc = site[1]
       /\ fr' = [fr EXCEPT ![t] = To(t, site[2])]
  /\ g_mutex' = t
  /\ UNCHANGED << TRACE, gp_orgMalloc, gp_orgCalloc, sIndex, handed, heap, lh_first, gi_allocCount, gi_hookDisabled, aborted,
                  held, oob, ignored, run, calls, last >>

\* the caller's side of a call: the ghosts
Started == calls' = calls + 1 /\ UNCHANGED << oob, ignored, run, last >>
Inside  == UNCHANGED << held, oob, ignored, run, calls, last >>

\* malloc (size), calloc (nmemb, size): internalRealloc (NULL, ...)
EnterAlloc(t, op, size) ==
  /\ At(t, "idle") /\ calls < MaxThreadCalls
  /\ Cardinality(held) + Cardinality(Allocating) < MaxLive
  /\ fr' = [fr EXCEPT ![t] = Frame("ir_alloc", op, NULL, size)]
  /\ Started
  /\ UNCHANGED << TRACE, gp_orgMalloc, gp_orgCalloc, sIndex, handed, heap, lh_first, gi_allocCount, gi_hookDisabled, aborted, held, g_mutex >>

\* realloc (vPtr, size) of a pointer the caller holds
EnterRealloc(t, vPtr, size) ==
  /\ At(t, "idle") /\ calls < MaxThreadCalls /\ vPtr \in held
  /\ fr' = [fr EXCEPT ![t] = Frame("ir_verify", "realloc", vPtr, size)]
  /\ held' = held \ {vPtr}
  /\ Started
  /\ UNCHANGED << TRACE, gp_orgMalloc, gp_orgCalloc, sIndex, handed, heap, lh_first, gi_allocCount, gi_hookDisabled, aborted, g_mutex >>

\* free (vPtr) of a pointer the caller holds
EnterFree(t, vPtr) ==
  /\ At(t, "idle") /\ calls < MaxThreadCalls /\ vPtr \in held
  /\ fr' = [fr EXCEPT ![t] = Frame("if_verify", "free", vPtr, 0)]
  /\ held' = held \ {vPtr}
  /\ Started
  /\ UNCHANGED << TRACE, gp_orgMalloc, gp_orgCalloc, sIndex, handed, heap, lh_first, gi_allocCount, gi_hookDisabled, aborted, g_mutex >>

\* the diagnostics that take the mutex first.  For mem_show_allocations, size
\* says whether the first fprintf to fp asks for storage (for the buffer of fp)
DiagOps == {"usage", "real", "check", "show", "ignore"}

EnterDiag(t, op, sinkAllocates) ==
  /\ At(t, "idle") /\ calls < MaxThreadCalls
  /\ sinkAllocates => op = "show" /\ Cardinality(Allocating) = 0
  /\ fr' = [fr EXCEPT ![t] = Frame("dg_lock", op, NULL, IF sinkAllocates THEN WordSize ELSE 0)]
  /\ Started
  /\ UNCHANGED << TRACE, gp_orgMalloc, gp_orgCalloc, sIndex, handed, heap, lh_first, gi_allocCount, gi_hookDisabled, aborted, held, g_mutex >>

\* mem_get_alloc_count: one read, without the mutex
ReadCount(t) ==
  /\ At(t, "idle") /\ calls < MaxThreadCalls
  /\ Started
  /\ UNCHANGED << TRACE, gp_orgMalloc, gp_orgCalloc, sIndex, handed, heap, lh_first, gi_allocCount, gi_hookDisabled, aborted, held, g_mutex, fr >>

\* internalRealloc, lines 528-533: verifyIntegrity, szAllocator
IrVerify(t) ==
  /\ At(t, "ir_verify")
  /\ Goes(t, [fr[t] EXCEPT !.pc = "ir_lock1", !.mHead = fr[t].vPtr - SizeofHeader,
                           !.szAllocator = heap[fr[t].vPtr - SizeofHeader].szAllocator],
          IF verifyIntegrity(heap, fr[t].vPtr) THEN PS ELSE Abort(PS))
  /\ Inside /\ UNCHANGED g_mutex

\* internalRealloc, lines 535-540
IrUnlink(t) ==
  /\ At(t, "ir_unlink")
  /\ Goes(t, To(t, "ir_alloc"), unlink(PS, fr[t].mHead))
  /\ MUTEX_UNLOCK /\ Inside

\* internalRealloc, lines 543-549: gp_orgRealloc
IrAlloc(t, e) ==
  /\ At(t, "ir_alloc")
  /\ fr[t].vPtr = NULL => ~e.move
  /\ LET r == resizeBlock(PS, fr[t].mHead, AdjSize(fr[t].size, 1), e)
     IN  Goes(t, [fr[t] EXCEPT !.mHead = r.ret,
                               !.pc = IF gi_hookDisabled[t] = 0 THEN "ir_hook" ELSE "ir_lock2"],
              Quiet(r))
  /\ Inside /\ UNCHANGED g_mutex

\* internalRealloc, line 551, and internalFree, line 698: gi_hookDisabled = 1
SetHook(t) ==
  /\ ~aborted /\ fr[t].pc \in {"ir_hook", "if_hook"}
  /\ Goes(t, To(t, IF fr[t].pc = "ir_hook" THEN "ir_trace" ELSE "if_trace"),
          [PS EXCEPT !.gi_hookDisabled[t] = 1])
  /\ Inside /\ UNCHANGED g_mutex

\* internalRealloc, line 553: szCaller = trace (4, 1)
IrTrace(t) ==
  /\ At(t, "ir_trace")
  /\ TRACE => g_mutex = NULL
  /\ LET r == trace(PS, 4, 1, StayEnv)
     IN  Goes(t, [fr[t] EXCEPT !.szCaller = r.ret,
                               !.pc = IF TypeOf(fr[t].op) = REALLOC /\ fr[t].vPtr # NULL
                                        THEN "ir_post" ELSE "ir_lockc"],
              Quiet(r))
  /\ Inside /\ UNCHANGED g_mutex

\* internalRealloc, lines 561-563, 578-580, 586-588: gi_allocCount++
IrCount(t) ==
  /\ At(t, "ir_count")
  /\ Goes(t, To(t, "ir_post"), countUp(PS))
  /\ MUTEX_UNLOCK /\ Inside

\* internalRealloc, lines 567-593: free (szAllocator) of a REALLOC, gi_hookDisabled = 0
IrPost(t) ==
  /\ At(t, "ir_post")
  /\ LET owned == TRACE /\ TypeOf(fr[t].op) = REALLOC /\ fr[t].szAllocator # NULL
     IN  /\ owned => g_mutex = NULL
         /\ Goes(t, To(t, "ir_lock2"),
                 Quiet(hookOff(IF owned THEN freeD(PS, fr[t].szAllocator) ELSE PS, t)))
  /\ Inside /\ UNCHANGED g_mutex

\* internalRealloc, lines 599-608: the header fields, LIST_INSERT_HEAD
IrInsert(t) ==
  /\ At(t, "ir_insert")
  /\ Goes(t, To(t, "ir_guards"),
          fillHeader(PS, fr[t].mHead, fr[t].szCaller, fr[t].size, StayEnv.fill))
  /\ MUTEX_UNLOCK /\ Inside

\* internalRealloc, lines 609-631: the guard bands, the padding, return
IrGuards(t) ==
  /\ At(t, "ir_guards")
  /\ Goes(t, Idle, Quiet(guardAndReturn(PS, fr[t].mHead)))
  /\ held' = held \cup {fr[t].mHead + SizeofHeader}
  /\ UNCHANGED << g_mutex, oob, ignored, run, calls, last >>

\* internalFree, lines 683-685
IfVerify(t) ==
  /\ At(t, "if_verify")
  /\ Goes(t, [fr[t] EXCEPT !.pc = "if_lock1", !.mHead = fr[t].vPtr - SizeofHeader,
                           !.szAllocator = heap[fr[t].vPtr - SizeofHeader].szAllocator],
          IF verifyIntegrity(heap, fr[t].vPtr) THEN PS ELSE Abort(PS))
  /\ Inside /\ UNCHANGED g_mutex

\* internalFree, lines 688-693
IfUnlink(t) ==
  /\ At(t, "if_unlink")
  /\ Goes(t, To(t, "if_release"), unlink(PS, fr[t].mHead))
  /\ MUTEX_UNLOCK /\ Inside

\* internalFree, lines 694-696: gp_orgFree
IfRelease(t) ==
  /\ At(t, "if_release")
  /\ Goes(t, IF gi_hookDisabled[t] = 0 THEN To(t, "if_hook") ELSE Idle,
          releaseBlock(PS, fr[t].mHead))
  /\ Inside /\ UNCHANGED g_mutex

\* internalFree, line 699: szCaller = trace (iLen, 1)
IfTrace(t) ==
  /\ At(t, "if_trace")
  /\ TRACE => g_mutex = NULL
  /\ LET r == trace(PS, 4, 1, StayEnv)
     IN  Goes(t, [fr[t] EXCEPT !.szCaller = r.ret, !.pc = "if_lockc"], Quiet(r))
  /\ Inside /\ UNCHANGED g_mutex

\* internalFree, lines 705-707: gi_allocCount--
IfCount(t) ==
  /\ At(t, "if_count")
  /\ Goes(t, To(t, "if_post"), countDown(PS))
  /\ MUTEX_UNLOCK /\ Inside

\* internalFree, lines 709-722: free (szCaller), free (szAllocator), gi_hookDisabled = 0
IfPost(t) ==
  /\ At(t, "if_post")
  /\ TRACE => g_mutex = NULL
  /\ Goes(t, Idle,
          Quiet(hookOff(IF TRACE THEN freeD(freeD(PS, fr[t].szCaller), fr[t].szAllocator)
                                 ELSE PS, t)))
  /\ Inside /\ UNCHANGED g_mutex

\* the body of a diagnostic, from its MUTEX_LOCK to its MUTEX_UNLOCK
DiagBody(op, s) ==
  IF op = "usage" THEN mem_get_usage(s)
  ELSE IF op = "real" THEN mem_get_real_usage(s)
  ELSE IF op = "check" THEN mem_check_integrity(s)
  ELSE IF op = "ignore" THEN mem_ignore_current_allocations(s)
  ELSE mem_show_allocations(s)

\* mem_get_usage .. mem_show_allocations: the traversal.  A fprintf of
\* mem_show_allocations that asks for storage enters malloc here, with the
\* mutex held.
DgSweep(t) ==
  /\ At(t, "dg_sweep")
  /\ IF fr[t].op = "show" /\ fr[t].size # 0 /\ sweepOk(PS)
       THEN /\ Goes(t, Frame("ir_alloc", "show", NULL, fr[t].size), PS)
            /\ UNCHANGED << g_mutex, ignored >>
       ELSE /\ Goes(t, Idle, Quiet(DiagBody(fr[t].op, PS)))
            /\ MUTEX_UNLOCK
            /\ ignored' = (ignored \/ fr[t].op = "ignore")
  /\ UNCHANGED << held, oob, run, calls, last >>

\* the steps of thread t inside a call
Step(t) ==
  \/ MUTEX_LOCK(t)
  \/ IrVerify(t)
  \/ IrUnlink(t)
  \/ \E e \in MoveEnvs : IrAlloc(t, e)
  \/ SetHook(t)
  \/ IrTrace(t)
  \/ IrCount(t)
  \/ IrPost(t)
  \/ IrInsert(t)
  \/ IrGuards(t)
  \/ IfVerify(t)
  \/ IfUnlink(t)
  \/ IfRelease(t)
  \/ IfTrace(t)
  \/ IfCount(t)
  \/ IfPost(t)
  \/ DgSweep(t)

\* the calls thread t may make
Enter(t) ==
  \/ \E op \in {"malloc", "calloc"}, size \in ThreadSizes : EnterAlloc(t, op, size)
  \/ \E vPtr \in held, size \in ThreadSizes : EnterRealloc(t, vPtr, size)
  \/ \E vPtr \in held : EnterFree(t, vPtr)
  \/ \E op \in DiagOps, sinkAllocates \in BOOLEAN : EnterDiag(t, op, sinkAllocates)
  \/ ReadCount(t)

NextThreads == \E t \in Threads : Step(t) \/ Enter(t)

\* the threads start after init, or after init and one malloc that has returned
InitThreads ==
  /\ TRACE \in BOOLEAN
  /\ \E first \in BOOLEAN, size \in ThreadSizes :
       LET r == IF first THEN malloc(init(1, StayEnv), 1, size, StayEnv)
                         ELSE Quiet(init(1, StayEnv))
       IN  /\ heap = r.heap
           /\ lh_first = r.lh_first
           /\ gi_allocCount = r.gi_allocCount
           /\ gi_hookDisabled = r.gi_hookDisabled
           /\ aborted = r.aborted
           /\ held = {r.ret} \ {NULL}
  /\ oob = FALSE
  /\ calls = 0
  /\ g_mutex = NULL
  /\ fr = [t \in Threads |-> Idle]
  /\ ignored = FALSE
  /\ run = NoRun
  /\ last = [ op |-> "init", ptr |-> NULL, fail |-> FALSE, ret |-> NULL, fresh |-> FALSE ]
  /\ gp_orgMalloc = RTLD_NEXT.malloc
  /\ gp_orgCalloc = RTLD_NEXT.calloc
  /\ sIndex = [t \in Threads |-> 0]
  /\ handed = << >>

SpecThreads == InitThreads /\ [][NextThreads]_vars

\* the build without -DTRACE=1 (the default one)
InitDefaultBuild == InitThreads /\ ~TRACE

\* The threads under a fair scheduler: a thread that can take a step of its
\* call (it does not wait for the mutex) takes it in the end.
FairThreads ==
  /\ InitDefaultBuild
  /\ [][NextThreads]_vars
  /\ \A t \in Threads : WF_vars(Step(t))

(***************************************************************************)
(* The process from its start: malloc and calloc are called before init    *)
(* has looked up the functions of the underlying allocator (by the C++     *)
(* runtime, by dlsym itself), then init runs, then the calls go through    *)
(* internalRealloc.  Here the calls are whole and none is released.        *)
(***************************************************************************)
MaxBootCalls == 3   \* calls of malloc and calloc made from process start on

\* &ullStatic[0] of thread t (thread-local, outside the underlying allocator's blocks)
ullStatic(t) == t * 2^20

\* sizes asked for before init: nothing, one element, half of ullStatic,
\* the largest size_t
BootSizes == {0, WordSize, (StaticLen \div 2) * WordSize, SizeTMod - 1}

\* calloc (nmemb, size) as called before init: a few elements of half a word,
\* and two elements of half the range of size_t
BootCounts == {<< nmemb, WordSize \div 2 >> : nmemb \in 0..NumSizes} \cup {<< 2, SizeTMod \div 2 >>}

\* static void *internalStaticAlloc (size_t size): ret is the pointer, index
\* the new sIndex of the calling thread, aborted whether abort () was called
internalStaticAlloc(t, size) ==
  LET vPtr == ullStatic(t) + sIndex[t] * WordSize
      next == (sIndex[t] + ((size + (WordSize - 1)) % SizeTMod) \div WordSize) % SizeTMod
  IN  [ ret |-> vPtr, index |-> next, aborted |-> next >= StaticLen ]

\* a call served from ullStatic; asked is the number of bytes the caller
\* asked for (for calloc the product of its arguments, as the caller means it)
Static(t, size, asked) ==
  LET r == internalStaticAlloc(t, size)
  IN  /\ sIndex' = [sIndex EXCEPT ![t] = r.index]
      /\ aborted' = r.aborted
      /\ handed' = IF r.aborted THEN handed
                                ELSE Append(handed, [ptr |-> r.ret, size |-> asked, by |-> t])
      /\ UNCHANGED << TRACE, heap, lh_first, gi_allocCount, gi_hookDisabled, gp_orgMalloc, gp_orgCalloc >>

\* a call served by internalRealloc
Dynamic(t, r, size) ==
  /\ Leaves(r)
  /\ UNCHANGED << TRACE, gp_orgMalloc, gp_orgCalloc, sIndex >>
  /\ handed' = IF r.aborted \/ r.ret = NULL
                 THEN handed
                 ELSE Append(handed, [ptr |-> r.ret, size |-> size, by |-> t])

\* the pointers internalRealloc has handed out
FromHeap == {i \in DOMAIN handed : handed[i].ptr - SizeofHeader \in DOMAIN heap}

\* the caller's side of these calls
BootCall ==
  /\ ~aborted /\ calls < MaxBootCalls
  /\ calls' = calls + 1
  /\ UNCHANGED << held, oob, ignored, run, g_mutex, fr, last >>

\* void *malloc (size_t size)
BootMalloc(t, size) ==
  /\ BootCall
  /\ IF gp_orgMalloc = NULL
       THEN size \in BootSizes /\ Static(t, size, size)
       ELSE /\ size \in Sizes /\ Cardinality(FromHeap) < MaxLive
            /\ Dynamic(t, malloc(PS, t, size, StayEnv), size)

\* void *calloc (size_t nmemb, size_t size)
BootCalloc(t, nmemb, size) ==
  /\ BootCall
  /\ IF gp_orgCalloc = NULL
       THEN Static(t, (nmemb * size) % SizeTMod, nmemb * size)
       ELSE /\ nmemb * size < SizeTMod /\ Cardinality(FromHeap) < MaxLive
            /\ Dynamic(t, calloc(PS, t, nmemb, size, StayEnv), nmemb * size)

\* static void init (void), the constructor: the lookups, then malloc (0)
BootInit(t) ==
  /\ ~aborted /\ gp_orgMalloc = NULL
  /\ gp_orgMalloc' = RTLD_NEXT.malloc
  /\ gp_orgCalloc' = RTLD_NEXT.calloc
  /\ Leaves(init(t, StayEnv))
  /\ UNCHANGED << TRACE, sIndex, handed, held, oob, ignored, run, calls, g_mutex, fr, last >>

InitBoot ==
  /\ TRACE \in BOOLEAN
  /\ heap = [x \in {} |-> NULL]
  /\ lh_first = NULL
  /\ gi_allocCount = 0
  /\ gi_hookDisabled = [t \in Threads |-> 0]
  /\ aborted = FALSE
  /\ held = {}
  /\ oob = FALSE
  /\ calls = 0
  /\ g_mutex = NULL
  /\ fr = [t \in Threads |-> Idle]
  /\ ignored = FALSE
  /\ run = NoRun
  /\ last = [ op |-> "start", ptr |-> NULL, fail |-> FALSE, ret |-> NULL, fresh |-> FALSE ]
  /\ gp_orgMalloc = NULL
  /\ gp_orgCalloc = NULL
  /\ sIndex = [t \in Threads |-> 0]
  /\ handed = << >>

NextBoot ==
  \/ \E t \in Threads, size \in BootSizes \cup Sizes : BootMalloc(t, size)
  \/ \E t \in Threads, k \in BootCounts : BootCalloc(t, k[1], k[2])
  \/ \E t \in Threads : BootInit(t)

Boot == InitBoot /\ [][NextBoot]_vars

(***************************************************************************)
(* Properties.  Below, t ranges over the threads and e over what the       *)
(* environment may decide; a property that speaks of the effect of a call  *)
(* is stated on the state the call would leave when made now.              *)
(***************************************************************************)
\* the records the Registry holds
Tracked(s) == {Registry(s)[i] : i \in 1..Len(Registry(s))}

\* both head guard words, every padding byte and both tail guard words of the
\* record at b hold the values they were given
GuardsValid(h, b) ==
  /\ h[b].ullFixedValues = << GUARD_BAND_TOP, GUARD_BAND_TOP >>
  /\ Len(h[b].pad) = PadLen(b + SizeofHeader, h[b].size)
  /\ \A i \in 1..Len(h[b].pad) : h[b].pad[i] = (b + SizeofHeader + h[b].size + i - 1) % 256
  /\ h[b].cap = << GUARD_BAND_BOTTOM, GUARD_BAND_BOTTOM >>

\* the environment of a call whose storage request is met, the block staying in place
Granted == {e \in Envs : ~e.fail /\ ~e.move /\ ~e.crash}

Attributed(s) == {b \in Tracked(s) : s.heap[b].szAllocator # NULL}

\* C4 (live count): without IgnoreCurrentAllocations, AllocationCount()
\* equals the number of blocks that were allocated with the flag clear, are
\* not released and are tracked in the Registry.
C4_LiveCount ==
  ~ignored => gi_allocCount = Cardinality(Attributed(PS))

\* header and cap of one record
Overhead == SizeofHeader + SizeofCap

Refused == {e \in Envs : e.fail /\ ~e.move}

\* the call returned NULL to its caller and left the count alone
ReturnsNone(r) == r.ret = NULL /\ ~r.aborted /\ r.gi_allocCount = gi_allocCount

C8_ResizeKeepsRecord ==
  ~aborted =>
    \A t \in Threads, p \in held, S \in Sizes, e \in {x \in Envs : ~x.crash} :
      (p - SizeofHeader \in Attributed(PS) /\ GuardsValid(heap, p - SizeofHeader)) =>
        LET r == realloc(PS, t, p, S, e)
        IN  /\ r.gi_allocCount = gi_allocCount
            /\ r.ret # NULL
            /\ Attributed(r) = (Attributed(PS) \ {p - SizeofHeader}) \cup {r.ret - SizeofHeader}
            /\ r.heap[r.ret - SizeofHeader].size = S
            /\ GuardsValid(r.heap, r.ret - SizeofHeader)

\* C9 (suppression): IgnoreCurrentAllocations() leaves the Registry empty,
\* every record that was in it detached, the count 0 and nothing for
\* ShowAllocations to report, and it releases no storage.
C9_Suppression ==
  ~aborted =>
    LET r == mem_ignore_current_allocations(PS)
    IN  /\ ~r.aborted
        /\ r.lh_first = NULL /\ Registry(r) = << >>
        /\ \A b \in Tracked(PS) : r.heap[b].le_prev = NULL
        /\ r.gi_allocCount = 0
        /\ Report(r).none /\ Report(r).entries = << >>
        /\ ~mem_show_allocations(r).aborted
        /\ DOMAIN r.heap = DOMAIN heap

\* IgnoreCurrentAllocations() has returned, called when the Registry held
\* the record of init and the one of a block the caller still holds
C9_Witness ==
  /\ ~aborted /\ last.op = "ignore" /\ calls = 2 /\ held # {}
  /\ lh_first = NULL /\ gi_allocCount = 0
  /\ \A b \in DOMAIN heap : heap[b].le_prev = NULL
  /\ Cardinality(DOMAIN heap) >= 2

\* C10 (Release(none)): free (NULL) changes nothing: not the count, the
\* Registry, any record, the storage of the underlying allocator or the
\* thread's re-entrancy flag, and it does not abort, damaged guards or not.
C10_ReleaseNone ==
  \A t \in Threads, e \in Envs : free(PS, t, NULL, e) = PS

\* free (NULL) has returned while a held block had a damaged guard
C10_Witness ==
  /\ ~aborted /\ last.op = "free" /\ last.ptr = NULL
  /\ \E p \in held : ~GuardsValid(heap, p - SizeofHeader)

\* what calloc (nmemb, size) and malloc (nmemb*size) leave, and the record
\* of the block calloc returns
Zeroed(t, nmemb, size, e) ==
  LET c == calloc(PS, t, nmemb, size, e)
  IN  [ c |-> c, m |-> malloc(PS, t, (nmemb * size) % SizeTMod, e),
        len |-> (nmemb * size) % SizeTMod, mHead |-> c.ret - SizeofHeader ]

\* as malloc (nmemb*size): the same heap, list, count and result; the count
\* one higher, the record of size nmemb*size, which is what memset clears,
\* with guard bands and padding that verify
AsAllocate(z) ==
  /\ z.c.heap = z.m.heap /\ z.c.lh_first = z.m.lh_first
  /\ z.c.gi_allocCount = z.m.gi_allocCount
  /\ z.c.gi_allocCount = gi_allocCount + 1
  /\ z.c.ret # NULL /\ z.c.ret = z.m.ret
  /\ z.c.heap[z.mHead].size = z.len
  /\ verifyIntegrity(z.c.heap, z.c.ret)

\* the calls the properties of calloc are stated for
ZeroCalls == Threads \X (0..(NumSizes + 1)) \X {1, WordSize \div 2} \X Granted

Reported(s) == {Report(s).entries[i].address : i \in DOMAIN Report(s).entries}

\* C15 (report): mem_show_allocations writes one entry for every record of
\* the Registry that carries an attribution, whatever its size, each with the
\* address, size and attribution of the record, and writes the line "No
\* memory allocations currently" exactly when there is no such record.
C15_ReportComplete ==
  (~aborted /\ ~mem_show_allocations(PS).aborted) =>
    /\ Reported(PS) = {b + SizeofHeader : b \in Attributed(PS)}
    /\ Len(Report(PS).entries) = Cardinality(Attributed(PS))
    /\ \A i \in DOMAIN Report(PS).entries :
         LET entry == Report(PS).entries[i]
         IN  /\ entry.size = heap[entry.address - SizeofHeader].size
             /\ entry.by = heap[entry.address - SizeofHeader].szAllocator
    /\ Report(PS).none <=> Attributed(PS) = {}

\* the blocks the caller holds that mem_ignore_current_allocations detached
Detached == {vPtr \in held : heap[vPtr - SizeofHeader].le_prev = NULL}

\* C19 (suppressed blocks): the count is never negative, and a free or a
\* realloc of a block that mem_ignore_current_allocations has just detached does not
\* abort, leaves the count alone and does not bring the block into the
\* Registry or into the report again.
C19_StaySuppressed ==
  /\ gi_allocCount >= 0
  /\ (~aborted /\ ~oob /\ last.op = "ignore") =>
       \A vPtr \in Detached, t \in Threads, e \in Granted :
         LET f == free(PS, t, vPtr, e)
             r == realloc(PS, t, vPtr, WordSize, e)
         IN  /\ ~f.aborted /\ f.gi_allocCount = gi_allocCount
             /\ ~r.aborted /\ r.gi_allocCount = gi_allocCount
             /\ r.ret - SizeofHeader \notin Tracked(r)
             /\ r.ret \notin Reported(r)

\* the records that carry an attribution string, tracked or not, and the
\* blocks that carry none
Owners(s)  == {b \in DOMAIN s.heap : s.heap[b].szAllocator # NULL}
Unowned(s) == DOMAIN s.heap \ Owners(s)

\* the block of the attribution string of record b
StringOf(s, b) == s.heap[b].szAllocator - SizeofHeader

RoundUp(n) == ((n + (WordSize - 1)) \div WordSize) * WordSize

\* payload sizes the layout is computed for: the small ones, the largest
\* whose adjSize is below 2^w before it is aligned, and the largest size_t
LayoutSizes == Sizes \cup {SizeTMod - SizeofHeader - SizeofCap - 1, SizeTMod - 1}

\* the block that r.ret lies in was obtained and built for asked bytes:
\* its length, its recorded size, the end of what was written, the place
\* verifyIntegrity looks for the cap
LaidOut(r, asked) ==
  LET blk == r.heap[r.ret - SizeofHeader]
  IN  /\ blk.blockLen = SizeofHeader + RoundUp(asked) + SizeofCap
      /\ blk.size = asked
      /\ SizeofHeader + blk.size + Len(blk.pad) + SizeofCap <= blk.blockLen
      /\ verifyIntegrity(r.heap, r.ret)

\* C22 (block layout arithmetic): for every payload size of malloc and every
\* nmemb*size of calloc, the block obtained from the underlying allocator is
\* header + payload rounded up to words + cap bytes long, the recorded size
\* is the size asked for, and the head guards, the payload, the padding and
\* the cap that verifyIntegrity finds again all lie inside the block.
C22_BlockLayout ==
  (~aborted /\ held = {}) =>
    \A t \in Threads, e \in Granted :
      /\ \A size \in LayoutSizes :
           LET r == malloc(PS, t, size, e)
           IN  (~r.aborted /\ r.ret # NULL) => LaidOut(r, size)
      /\ \A k \in BootCounts :
           LET r == calloc(PS, t, k[1], k[2], e)
           IN  (~r.aborted /\ r.ret # NULL) => LaidOut(r, k[1] * k[2])

\* C23 (initial state): when init has returned and no caller has allocated
\* yet, the Registry is empty and mem_get_alloc_count () is 0.
C23_InitialState ==
  (last.op = "init" /\ ~aborted) =>
    /\ Registry(PS) = << >>
    /\ mem_get_alloc_count(PS).ret = 0

\* C24 (failed Resize): realloc (p, n) of a held, tracked block, when the
\* underlying allocator returns no storage, returns NULL and leaves the
\* Registry and the count as they were: p's record is still in the list,
\* still summed by mem_get_usage and still listed by mem_show_allocations.
C24_FailedResizeKeeps ==
  ~aborted =>
    \A t \in Threads, p \in held, n \in Sizes, e \in Refused :
      (p - SizeofHeader \in Tracked(PS) /\ GuardsValid(heap, p - SizeofHeader)) =>
        LET r == realloc(PS, t, p, n, e)
        IN  /\ ReturnsNone(r)
            /\ Registry(r) = Registry(PS)
            /\ p - SizeofHeader \in Tracked(r)
            /\ mem_get_usage(r).ret = mem_get_usage(PS).ret
            /\ Reported(r) = Reported(PS)

(***************************************************************************)
(* Properties of the interleaved calls                                     *)
(***************************************************************************)
\* the step changes a link of the Registry: lh_first, or le_next or le_prev
\* of a block
LinksChange ==
  \/ lh_first' # lh_first
  \/ \E b \in DOMAIN heap \cap DOMAIN heap' :
        heap'[b].le_next # heap[b].le_next \/ heap'[b].le_prev # heap[b].le_prev

\* the steps that are whole calls of the library to itself (they take the
\* mutex inside)
NestedCalls == {"ir_trace", "ir_post", "if_trace", "if_post"}

\* the places between a MUTEX_LOCK and its MUTEX_UNLOCK
Critical == {site[2] : site \in LockSites}

\* C11 (mutual exclusion): a step that changes a link of the Registry or the
\* count, and the traversal of a diagnostic, is the step of the thread that
\* holds the mutex; no two threads are between a MUTEX_LOCK and its
\* MUTEX_UNLOCK at the same time, so no traversal meets an insert or remove.
C11_MutualExclusion ==
  [][ /\ \A t \in Threads :
           ( /\ fr'[t] # fr[t]
             /\ fr[t].pc \notin NestedCalls
             /\ LinksChange \/ gi_allocCount' # gi_allocCount \/ fr[t].pc = "dg_sweep" )
           => g_mutex = t
      /\ Cardinality({t \in Threads : fr[t].pc \in Critical}) <= 1
    ]_vars

\* a thread is about to insert its record while another waits to traverse
C11_Witness ==
  \E t \in Threads, u \in Threads :
    /\ fr[t].pc = "ir_insert" /\ g_mutex = t
    /\ fr[u].pc = "dg_lock" /\ fr[u].op = "check"


\* a call of thread t is in progress
InCall(t) == fr[t].pc # "idle"

\* C12 (completion): with every thread scheduled fairly, a call that is in
\* progress returns or the process aborts; no thread waits for the mutex
\* for ever, also when the fprintf of a report asks for storage.
C12_Completion ==
  \A t \in Threads : InCall(t) ~> (~InCall(t) \/ aborted)


\* C16 (build order): a record that is reachable through the Registry has its
\* head guard words, its padding and its cap written, so that no traversal of
\* another thread aborts during an allocation or a resize (no caller stores
\* outside a payload in these runs).
C16_BuildOrder ==
  /\ \A b \in Tracked(PS) : GuardsValid(heap, b)
  /\ ~aborted

\* the places at which a thread is about to run verifyIntegrity, and those at
\* which it is about to call gp_orgRealloc or gp_orgFree
Verifying(t) ==
  \/ fr[t].pc \in {"ir_verify", "if_verify"}
  \/ fr[t].pc = "dg_sweep" /\ fr[t].op # "ignore"

InAllocator(t) == fr[t].pc \in {"ir_alloc", "if_release"}

\* C17 (lock scope, as the code has it): malloc, calloc, realloc and free
\* called by the application hold the mutex neither while they run
\* verifyIntegrity nor while they call the underlying allocator: they hold it
\* for the unlink, the count and the insertion only.  The traversals of the
\* diagnostics run verifyIntegrity on every record with the mutex held, and
\* mem_show_allocations holds it during its output too, the storage requests
\* of that output included.
C17_LockScope ==
  ~aborted => \A t \in Threads :
    /\ (fr[t].op \in {"malloc", "calloc", "realloc", "free"}) =>
         /\ (Verifying(t) \/ InAllocator(t)) => g_mutex # t
         /\ g_mutex = t => fr[t].pc \in Critical
    /\ fr[t].pc = "dg_sweep" => g_mutex = t
    /\ (g_mutex = t /\ fr[t].pc \notin Critical) => fr[t].op = "show"

\* a realloc is about to call gp_orgRealloc while another thread, holding
\* the mutex, is about to verify the records
C17_Witness ==
  \E t \in Threads, u \in Threads :
    /\ fr[t].op = "realloc" /\ fr[t].pc = "ir_alloc" /\ g_mutex = u
    /\ fr[u].pc = "dg_sweep" /\ fr[u].op = "usage"

\* C17 as stated: no operation holds the mutex while it runs verifyIntegrity
\* or calls the underlying allocator
C17_NeverUnderLock ==
  \A t \in Threads : (Verifying(t) \/ InAllocator(t)) => g_mutex # t

\* the places of a call between gi_hookDisabled = 1 and gi_hookDisabled = 0
Hooked == {"ir_trace", "ir_lockc", "ir_count", "ir_post", "if_trace", "if_lockc", "if_count", "if_post"}

\* the process state with the flag of thread u set to v
WithFlag(u, v) == [PS EXCEPT !.gi_hookDisabled[u] = v]

\* r is what a call made in state s, which returned a block, left: the count
\* and the flags are those of s, the record of the block carries no attribution, and the block is
\* the only one that is new (no string was built)
Unattributed(r, s) ==
  /\ ~r.aborted /\ r.ret # NULL
  /\ r.gi_allocCount = s.gi_allocCount
  /\ r.heap[r.ret - SizeofHeader].szAllocator = NULL
  /\ DOMAIN r.heap = DOMAIN s.heap \cup {r.ret - SizeofHeader}
  /\ r.gi_hookDisabled = s.gi_hookDisabled

\* C18 (re-entrancy): trace () and the logging run with the flag of the
\* calling thread set; a malloc, calloc, realloc or free that a thread makes
\* while its flag is set leaves the count alone and captures no attribution;
\* the flag of another thread does not change what a call does; the flag of
\* a thread that is in no call is clear.
C18_Reentrancy ==
  ~aborted => \A t \in Threads :
    /\ fr[t].pc \in Hooked <=> gi_hookDisabled[t] = 1
    /\ fr[t].pc = "idle" => gi_hookDisabled[t] = 0
    /\ gi_hookDisabled[t] = 1 =>
         /\ Unattributed(malloc(PS, t, WordSize \div 2, StayEnv), PS)
         /\ Unattributed(calloc(PS, t, 1, WordSize \div 2, StayEnv), PS)
         /\ \A vPtr \in held :
              /\ Unattributed(realloc(PS, t, vPtr, WordSize, StayEnv), PS)
              /\ LET f == free(PS, t, vPtr, StayEnv)
                 IN  /\ ~f.aborted /\ f.gi_allocCount = gi_allocCount
                     /\ f.gi_hookDisabled = gi_hookDisabled
                     /\ DOMAIN f.heap = DOMAIN heap \ {vPtr - SizeofHeader}
    /\ fr[t].pc = "idle" =>
         \A u \in Threads \ {t} :
           LET a == malloc(PS, t, WordSize \div 2, StayEnv)
               b == malloc(WithFlag(u, 1 - gi_hookDisabled[u]), t, WordSize \div 2, StayEnv)
           IN  /\ a.heap = b.heap /\ a.lh_first = b.lh_first /\ a.ret = b.ret
               /\ a.gi_allocCount = gi_allocCount + 1 /\ b.gi_allocCount = gi_allocCount + 1
               /\ b.heap[b.ret - SizeofHeader].szAllocator # NULL
               /\ b.gi_hookDisabled[u] = 1 - gi_hookDisabled[u] /\ b.gi_hookDisabled[t] = 0

\* thread t is in trace () of a malloc, its flag set, while thread u is in
\* no call, its flag clear, and the caller holds a block
C18_Witness ==
  \E t \in Threads, u \in Threads :
    /\ fr[t].pc = "ir_trace" /\ gi_hookDisabled[t] = 1
    /\ fr[u].pc = "idle" /\ gi_hookDisabled[u] = 0
    /\ held # {} /\ ~aborted

\* no thread is inside a call
AllReturned == \A t \in Threads : ~InCall(t)

\* C25 (mem_ignore_current_allocations against the calls of another thread):
\* when mem_ignore_current_allocations has been called and every call has
\* returned, gi_allocCount is the number of records in the Registry that
\* have an allocator string, and it is not negative.
C25_IgnoreAtomic ==
  (~aborted /\ ignored /\ AllReturned) =>
    /\ gi_allocCount = Cardinality(Attributed(PS))
    /\ gi_allocCount >= 0

(***************************************************************************)
(* Properties of the process from its start                                *)
(***************************************************************************)
\* C13 (zero size): malloc (0) returns a pointer that is not NULL and that no
\* other call whose result is still live has returned, at every point of the
\* process, also before init has looked up the underlying allocator.
C13_ZeroSizeDistinct ==
  \A i \in DOMAIN handed :
    handed[i].size = 0 =>
      /\ handed[i].ptr # NULL
      /\ \A j \in DOMAIN handed : j # i => handed[j].ptr # handed[i].ptr

\* the calls of thread t that were served from ullStatic, in order
ServedStatic(t) ==
  SelectSeq(handed, LAMBDA h : h.by = t /\ h.ptr - SizeofHeader \notin DOMAIN heap)

\* the number of elements of ullStatic that size bytes take
Elements(size) == (size + (WordSize - 1)) \div WordSize

\* C21 (bootstrap allocator): what a thread was handed before init lies in
\* its ullStatic, each region beginning where the one before it ends (its
\* size rounded up to whole elements), the cursor standing at the end of the
\* last one, so the regions do not overlap and none passes the end of
\* ullStatic; abort () is called only for a request that has no room.
C21_BootstrapRegions ==
  \A t \in Threads :
    LET got == ServedStatic(t)
    IN  /\ \A i \in DOMAIN got :
             /\ got[i].ptr = ullStatic(t) + WordSize *
                               (IF i = 1 THEN 0
                                ELSE (got[i - 1].ptr - ullStatic(t)) \div WordSize
                                     + Elements(got[i - 1].size))
             /\ got[i].ptr + got[i].size <= ullStatic(t) + StaticLen * WordSize
        /\ (~aborted /\ got # << >>) =>
             sIndex[t] = (got[Len(got)].ptr - ullStatic(t)) \div WordSize
                           + Elements(got[Len(got)].size)
        /\ (aborted /\ gp_orgMalloc = NULL) => \E u \in Threads : sIndex[u] > StaticLen
====
